---- MODULE Spec2Model ----
(***************************************************************************)
(* Model of loc_dashboard.extractor: the monthly commit selection          *)
(* (get_monthly_commits), the archive-and-count step (_cloc_from_archive), *)
(* the path existence query (_has_subpath) and the driver                  *)
(* (collect_snapshots).  External processes (git log, git archive,        *)
(* git ls-tree, cloc) are the environment: each call draws its outcome     *)
(* (exit code 0, non-zero exit code, timeout; printed rows) from a small   *)
(* set.                                                                    *)
(***************************************************************************)
EXTENDS Integers, Sequences, FiniteSets, TLC

\* Longest branch history (number of lines git log prints).
MaxCommits == 3
\* Longest caller-supplied subdirectory list.
MaxSubdirs == 2

(***************************************************************************)
(* Python dicts: functions over the set of keys present.                   *)
(***************************************************************************)
EmptyDict == [k \in {} |-> 0]

DictSet(d, k, v) == [x \in (DOMAIN d) \cup {k} |-> IF x = k THEN v ELSE d[x]]

RECURSIVE SumValues(_)
SumValues(d) ==
    IF DOMAIN d = {} THEN 0
    ELSE LET k == CHOOSE x \in DOMAIN d : TRUE
         IN  d[k] + SumValues([x \in (DOMAIN d) \ {k} |-> d[x]])

RECURSIVE SeqsUpTo(_, _)
SeqsUpTo(S, n) ==
    IF n = 0 THEN {<<>>}
    ELSE LET shorter == SeqsUpTo(S, n - 1)
         IN  shorter \cup {Append(s, x) : s \in {t \in shorter : Len(t) = n - 1},
                                          x \in S}

InjSeqs(S, n) ==
    {s \in SeqsUpTo(S, n) : \A a, b \in 1..Len(s) : a # b => s[a] # s[b]}

(***************************************************************************)
(* The branch history as git log --format="%H %ai" --reverse prints it:    *)
(* one line per commit, oldest first.  A line is [hash, date], the date a  *)
(* triple <<year, month, day>> (the text YYYY-MM-DD).  Commit h is         *)
(* dated DateOf(h); hashes are unique within a history.                    *)
(***************************************************************************)
DateSeq == << <<2023, 12, 5>>, <<2023, 12, 20>>, <<2024, 1, 3>> >>

DateOf(h) == DateSeq[((h - 1) % Len(DateSeq)) + 1]

Hashes == 1..MaxCommits

LogLine(h) == [hash |-> h, date |-> DateOf(h)]

Histories ==
    {[k \in 1..Len(s) |-> LogLine(s[k])] : s \in InjSeqs(Hashes, MaxCommits)}

(***************************************************************************)
(* get_monthly_commits, after the return code check: fold over the lines   *)
(* keeping for each month key the entry seen last, then list the entries   *)
(* by sorted key.                                                          *)
(***************************************************************************)
\* date_str[:7]: the YYYY-MM prefix of YYYY-MM-DD
MonthOf(date) == <<date[1], date[2]>>

\* order of the strings YYYY-MM (zero-padded, so year first, then month)
MonthLess(a, b) == a[1] < b[1] \/ (a[1] = b[1] /\ a[2] < b[2])

\* keeps the first commit of a month instead of the last
RECURSIVE FoldMonthlyFirst(_, _, _)
FoldMonthlyFirst(lines, n, monthly) ==
    IF n > Len(lines) THEN monthly
    ELSE LET line  == lines[n]
             month == MonthOf(line.date)
         IN  FoldMonthlyFirst(lines, n + 1,
                 IF month \in DOMAIN monthly THEN monthly
                 ELSE DictSet(monthly, month,
                     [hash |-> line.hash, date |-> line.date, month |-> month]))

RECURSIVE FoldMonthly(_, _, _)
FoldMonthly(lines, n, monthly) ==
    IF n > Len(lines) THEN monthly
    ELSE LET line  == lines[n]
             month == MonthOf(line.date)
         IN  FoldMonthly(lines, n + 1,
                 DictSet(monthly, month,
                     [hash |-> line.hash, date |-> line.date, month |-> month]))

RECURSIVE SortedKeys(_)
SortedKeys(S) ==
    IF S = {} THEN <<>>
    ELSE LET m == CHOOSE x \in S : \A y \in S \ {x} : MonthLess(x, y)
         IN  <<m>> \o SortedKeys(S \ {m})

RECURSIVE ListByKeys(_, _)
ListByKeys(monthly, keys) ==
    IF keys = <<>> THEN <<>>
    ELSE <<monthly[Head(keys)]>> \o ListByKeys(monthly, Tail(keys))

get_monthly_commits(lines) ==
    LET monthly == FoldMonthly(lines, 1, EmptyDict)
    IN  ListByKeys(monthly, SortedKeys(DOMAIN monthly))

(***************************************************************************)
(* Subdirectory paths are sequences of characters; "a" and "b" stand for   *)
(* the characters of a name, "/" is the separator.                         *)
(***************************************************************************)
RawPaths == { <<"a">>, <<"a", "/">>, <<"/", "b">> }

SubdirLists == SeqsUpTo(RawPaths, MaxSubdirs)

RECURSIVE LStrip(_)
LStrip(s) == IF s # <<>> /\ Head(s) = "/" THEN LStrip(Tail(s)) ELSE s

RECURSIVE RStrip(_)
RStrip(s) ==
    IF s # <<>> /\ s[Len(s)] = "/" THEN RStrip(SubSeq(s, 1, Len(s) - 1)) ELSE s

\* sd.strip("/")
Strip(s) == RStrip(LStrip(s))

\* strips the trailing separators only
NormalizeRStripOnly(sd) == RStrip(sd) \o <<"/">>

\* sd.strip("/") + "/"
Normalize(sd) == Strip(sd) \o <<"/">>

RECURSIVE NormalizeAll(_)
NormalizeAll(sds) ==
    IF sds = <<>> THEN <<>>
    ELSE <<Normalize(Head(sds))>> \o NormalizeAll(Tail(sds))

\* subpath=None of the whole-repository call
NoSubpath == <<>>

(***************************************************************************)
(* The text cloc --csv --quiet prints: a sequence of lines, a line being   *)
(* its comma-separated fields (line.split(",")), each field a string.      *)
(* The empty line has the single field "".                                 *)
(***************************************************************************)
BlankLine == <<"">>

HeaderLine == <<"files", "language", "blank", "comment", "code">>

\* int(text) for the numerals that occur; any other text raises ValueError
IntOf == ("0" :> 0) @@ ("1" :> 1) @@ ("2" :> 2) @@ ("3" :> 3) @@
         ("5" :> 5) @@ ("10" :> 10) @@ ("15" :> 15)

\* what cloc prints for two languages: a blank line, the header, the rows and
\* the SUM row; a short row stands for a line cloc adds to the table
OutGood ==
    << BlankLine, HeaderLine,
       <<"1", "Perl">>,
       <<"2", "Python", "0", "0", "10">>,
       <<"1", "C", "0", "0", "5">>,
       <<"3", "SUM", "0", "0", "15">> >>

\* no SUM row
OutNoSum == << HeaderLine, <<"2", "Python", "0", "0", "10">> >>

\* nothing printed (no countable file in the archive)
OutNothing == << >>

\* a code field that is no numeral
OutBadCode ==
    << HeaderLine,
       <<"2", "Python", "0", "0", "n/a">>,
       <<"2", "SUM", "0", "0", "10">> >>

\* an empty line between the rows
OutBlankInside ==
    << HeaderLine, BlankLine, <<"2", "SUM", "0", "0", "10">> >>

Outputs == {OutGood, OutNoSum, OutNothing, OutBadCode, OutBlankInside}

RECURSIVE DropLeadingBlank(_)
DropLeadingBlank(lines) ==
    IF lines # <<>> /\ Head(lines) = BlankLine
    THEN DropLeadingBlank(Tail(lines)) ELSE lines

RECURSIVE DropTrailingBlank(_)
DropTrailingBlank(lines) ==
    IF lines # <<>> /\ lines[Len(lines)] = BlankLine
    THEN DropTrailingBlank(SubSeq(lines, 1, Len(lines) - 1)) ELSE lines

\* stdout.strip().splitlines()
StripLines(lines) == DropTrailingBlank(DropLeadingBlank(lines))

\* line[0].isdigit(): the line starts with a digit
FirstIsDigit(line) == line[1] \in DOMAIN IntOf

Parsed(total, by_lang) == [err |-> "none", total |-> total, by_lang |-> by_lang]

ParseError(e) == [err |-> e, total |-> 0, by_lang |-> EmptyDict]

\* the loop over the lines of _cloc_from_archive
RECURSIVE ParseLines(_, _, _, _)
ParseLines(lines, n, total, by_lang) ==
    IF n > Len(lines) THEN Parsed(total, by_lang)
    ELSE LET line == lines[n]
         IN  IF line[1] = "files" THEN ParseLines(lines, n + 1, total, by_lang)
             ELSE IF line = BlankLine THEN ParseError("IndexError")
             ELSE IF ~FirstIsDigit(line) THEN ParseLines(lines, n + 1, total, by_lang)
             ELSE IF Len(line) < 5 THEN ParseLines(lines, n + 1, total, by_lang)
             ELSE IF line[5] \notin DOMAIN IntOf THEN ParseError("ValueError")
             ELSE IF line[2] = "SUM"
                  THEN ParseLines(lines, n + 1, IntOf[line[5]], by_lang)
                  ELSE ParseLines(lines, n + 1, total,
                                  DictSet(by_lang, line[2], IntOf[line[5]]))

ParseCloc(stdout) == ParseLines(StripLines(stdout), 1, 0, EmptyDict)

(***************************************************************************)
(* State.  pc is the position of collect_snapshots:                        *)
(*   start    before get_monthly_commits                                   *)
(*   loop     at the head of the loop over the months                      *)
(*   mktemp, archive, cloc, finally   inside _cloc_from_archive            *)
(*   ls_tree  before _has_subpath for subdirs[sdIdx]                       *)
(*   append   before snapshots.append                                      *)
(*   done     returned snapshots;  raised   left by an exception           *)
(***************************************************************************)
VARIABLES
    pc, error,
    logOutcome,       \* what git log will do: "ok", "nonzero", "timeout"
    log,              \* what git log will print
    subdirs,          \* the subdirs argument, then the normalized list
    on_progress,      \* whether a progress callback was passed
    commits, i,       \* the selected commits and the loop index (enumerate)
    sdIdx,            \* 0: whole repository, k: subdirs[k]
    repo_total, repo_by_lang, subdir_totals, subdir_by_lang,
    snapshots,
    tmp,              \* the temporary archive file exists
    pending,          \* what _cloc_from_archive is about to return or raise
    progress,         \* history: the callback invocations, with the number of
                      \* snapshots appended at the time of each
    calls,            \* history: the external invocations made for the commit
                      \* of the current month (hash): ls_tree per path,
                      \* repo_archive for the whole repository, last_ls the
                      \* last answer of git ls-tree; archive and cloc count
                      \* those made by the current call of _cloc_from_archive
    seen,             \* history: per month, what the whole-repository step met
    anyExternal       \* history: some git archive, git ls-tree or cloc ran

vars == << pc, error, logOutcome, log, subdirs, on_progress, commits, i, sdIdx,
           repo_total, repo_by_lang, subdir_totals, subdir_by_lang, snapshots,
           tmp, pending, progress, calls, seen, anyExternal >>

NoPending == [kind |-> "none", err |-> "none", total |-> 0, by_lang |-> EmptyDict]

Ret(total, by_lang) ==
    [kind |-> "ret", err |-> "none", total |-> total, by_lang |-> by_lang]

Exc(e) == [kind |-> "exc", err |-> e, total |-> 0, by_lang |-> EmptyDict]

NoCalls == [hash |-> 0, ls_tree |-> EmptyDict, repo_archive |-> 0,
            last_ls |-> "none", archive |-> 0, cloc |-> 0]

Count(d, k) == IF k \in DOMAIN d THEN d[k] ELSE 0

Incr(d, k) == DictSet(d, k, Count(d, k) + 1)

Init ==
    /\ pc = "start"
    /\ error = "none"
    /\ logOutcome \in {"ok", "nonzero", "timeout"}
    /\ log \in (IF logOutcome = "ok" THEN Histories ELSE {<<>>})
    /\ subdirs \in SubdirLists
    /\ on_progress \in BOOLEAN
    /\ commits = <<>>
    /\ i = 0
    /\ sdIdx = 0
    /\ repo_total = 0
    /\ repo_by_lang = EmptyDict
    /\ subdir_totals = EmptyDict
    /\ subdir_by_lang = EmptyDict
    /\ snapshots = <<>>
    /\ tmp = FALSE
    /\ pending = NoPending
    /\ progress = <<>>
    /\ calls = NoCalls
    /\ seen = <<>>
    /\ anyExternal = FALSE

\* An exception leaves collect_snapshots: its frame, and with it the
\* snapshots built so far, is gone.
Raise(e) ==
    /\ pc' = "raised"
    /\ error' = e
    /\ commits' = <<>>
    /\ i' = 0
    /\ sdIdx' = 0
    /\ subdirs' = <<>>
    /\ repo_total' = 0
    /\ repo_by_lang' = EmptyDict
    /\ subdir_totals' = EmptyDict
    /\ subdir_by_lang' = EmptyDict
    /\ snapshots' = <<>>
    /\ pending' = NoPending
    /\ calls' = NoCalls
    /\ seen' = <<>>

\* does not look at the return code
GitLogErrorIgnoresCode(outcome) ==
    IF outcome = "timeout" THEN "TimeoutExpired" ELSE "none"

\* get_monthly_commits raises on a non-zero return code; _run raises
\* subprocess.TimeoutExpired on a timeout
GitLogError(outcome) ==
    IF outcome = "timeout" THEN "TimeoutExpired"
    ELSE IF outcome = "nonzero" THEN "RuntimeError"
    ELSE "none"

\* collect_snapshots up to the loop: get_monthly_commits, snapshots = [],
\* the normalization of subdirs
GetMonthlyCommits ==
    /\ pc = "start"
    /\ IF GitLogError(logOutcome) # "none"
       THEN /\ Raise(GitLogError(logOutcome))
            /\ UNCHANGED << log >>
       ELSE /\ commits' = get_monthly_commits(log)
            /\ snapshots' = <<>>
            /\ subdirs' = NormalizeAll(subdirs)
            /\ log' = <<>>
            /\ pc' = "loop"
            /\ UNCHANGED << error, i, sdIdx, repo_total, repo_by_lang,
                            subdir_totals, subdir_by_lang, pending, calls,
                            seen >>
    /\ UNCHANGED << logOutcome, on_progress, tmp, progress, anyExternal >>

\* the loop head without the callback
NextMonthNoCallback ==
    /\ pc = "loop"
    /\ i < Len(commits)
    /\ sdIdx' = 0
    /\ calls' = [NoCalls EXCEPT !.hash = commits[i + 1].hash]
    /\ pc' = "mktemp"
    /\ UNCHANGED << error, logOutcome, log, subdirs, on_progress, commits, i,
                    repo_total, repo_by_lang, subdir_totals, subdir_by_lang,
                    snapshots, tmp, pending, progress, seen, anyExternal >>

\* the loop head for the next entry, the callback, and the call of
\* _cloc_from_archive(repo_path, commit_hash)
NextMonth ==
    /\ pc = "loop"
    /\ i < Len(commits)
    /\ progress' =
         IF on_progress
         THEN Append(progress, [index |-> i + 1, total |-> Len(commits),
                                month |-> commits[i + 1].month,
                                appended |-> Len(snapshots)])
         ELSE progress
    /\ sdIdx' = 0
    /\ calls' = [NoCalls EXCEPT !.hash = commits[i + 1].hash]
    /\ pc' = "mktemp"
    /\ UNCHANGED << error, logOutcome, log, subdirs, on_progress, commits, i,
                    repo_total, repo_by_lang, subdir_totals, subdir_by_lang,
                    snapshots, tmp, pending, seen, anyExternal >>

\* return snapshots
Return ==
    /\ pc = "loop"
    /\ i >= Len(commits)
    /\ pc' = "done"
    /\ UNCHANGED << error, logOutcome, log, subdirs, on_progress, commits, i,
                    sdIdx, repo_total, repo_by_lang, subdir_totals,
                    subdir_by_lang, snapshots, tmp, pending, progress, calls,
                    seen, anyExternal >>

\* the subpath argument of the current call of _cloc_from_archive
Subpath == IF sdIdx = 0 THEN NoSubpath ELSE subdirs[sdIdx]

\* tempfile.NamedTemporaryFile(suffix=".tar", delete=False)
MkTemp ==
    /\ pc = "mktemp"
    /\ tmp' = TRUE
    /\ pc' = "archive"
    /\ calls' = [calls EXCEPT !.archive = 0, !.cloc = 0]
    /\ UNCHANGED << error, logOutcome, log, subdirs, on_progress, commits, i,
                    sdIdx, repo_total, repo_by_lang, subdir_totals,
                    subdir_by_lang, snapshots, pending, progress, seen,
                    anyExternal >>

\* goes on to cloc whatever git archive returned
ArchiveStepIgnoresCode(out) ==
    IF out = "timeout" THEN [pc |-> "finally", pending |-> Exc("TimeoutExpired")]
    ELSE [pc |-> "cloc", pending |-> NoPending]

\* runs git archive again after a non-zero return code
ArchiveStepRetry(out) ==
    IF out = "timeout" THEN [pc |-> "finally", pending |-> Exc("TimeoutExpired")]
    ELSE IF out = "nonzero" THEN [pc |-> "archive", pending |-> NoPending]
    ELSE [pc |-> "cloc", pending |-> NoPending]

\* after git archive: a timeout raises, a non-zero return code returns (0, {})
ArchiveStep(out) ==
    IF out = "timeout" THEN [pc |-> "finally", pending |-> Exc("TimeoutExpired")]
    ELSE IF out = "nonzero" THEN [pc |-> "finally", pending |-> Ret(0, EmptyDict)]
    ELSE [pc |-> "cloc", pending |-> NoPending]

GitArchive ==
    /\ pc = "archive"
    /\ \E out \in {"ok", "nonzero", "timeout"} :
         /\ pc' = ArchiveStep(out).pc
         /\ pending' = ArchiveStep(out).pending
         /\ seen' = IF sdIdx = 0 /\ Len(seen) = i /\ out = "nonzero"
                    THEN Append(seen, [failed |-> TRUE, stdout |-> <<>>])
                    ELSE seen
    /\ calls' = [calls EXCEPT !.archive = @ + 1,
                              !.repo_archive = IF sdIdx = 0 THEN @ + 1 ELSE @]
    /\ anyExternal' = TRUE
    /\ UNCHANGED << error, logOutcome, log, subdirs, on_progress, commits, i,
                    sdIdx, repo_total, repo_by_lang, subdir_totals,
                    subdir_by_lang, snapshots, tmp, progress >>

\* after cloc: a timeout raises, a non-zero return code returns (0, {}),
\* otherwise the rows are parsed
ClocStep(out, stdout) ==
    IF out = "timeout" THEN Exc("TimeoutExpired")
    ELSE IF out = "nonzero" THEN Ret(0, EmptyDict)
    ELSE LET r == ParseCloc(stdout)
         IN  IF r.err # "none" THEN Exc(r.err) ELSE Ret(r.total, r.by_lang)

RunCloc ==
    /\ pc = "cloc"
    /\ \E out \in {"ok", "nonzero", "timeout"} :
         \E stdout \in (IF out = "ok" THEN Outputs ELSE {<<>>}) :
           /\ pending' = ClocStep(out, stdout)
           /\ seen' = IF sdIdx = 0 /\ Len(seen) = i
                            /\ ClocStep(out, stdout).kind = "ret"
                      THEN Append(seen, [failed |-> out = "nonzero",
                                         stdout |-> stdout])
                      ELSE seen
    /\ pc' = "finally"
    /\ calls' = [calls EXCEPT !.cloc = @ + 1]
    /\ anyExternal' = TRUE
    /\ UNCHANGED << error, logOutcome, log, subdirs, on_progress, commits, i,
                    sdIdx, repo_total, repo_by_lang, subdir_totals,
                    subdir_by_lang, snapshots, tmp, progress >>

\* the position after the scope sdIdx is recorded
AfterScope(k, sds) == IF k < Len(sds) THEN "ls_tree" ELSE "append"

\* leaves the file in place
UnlinkSkipped(exists) == exists

\* finally: os.unlink(tmp_path) if it exists
Unlinked(exists) == FALSE

\* the finally clause, then the return into collect_snapshots (the
\* assignment of the result) or the exception leaving it
Finally ==
    /\ pc = "finally"
    /\ tmp' = Unlinked(tmp)
    /\ IF pending.kind = "exc"
       THEN Raise(pending.err)
       ELSE /\ IF sdIdx = 0
               THEN /\ repo_total' = pending.total
                    /\ repo_by_lang' = pending.by_lang
                    /\ subdir_totals' = EmptyDict
                    /\ subdir_by_lang' = EmptyDict
               ELSE /\ subdir_totals' =
                         DictSet(subdir_totals, subdirs[sdIdx], pending.total)
                    /\ subdir_by_lang' =
                         DictSet(subdir_by_lang, subdirs[sdIdx], pending.by_lang)
                    /\ UNCHANGED << repo_total, repo_by_lang >>
            /\ pc' = AfterScope(sdIdx, subdirs)
            /\ sdIdx' = IF sdIdx < Len(subdirs) THEN sdIdx + 1 ELSE sdIdx
            /\ pending' = NoPending
            /\ UNCHANGED << error, subdirs, commits, i, snapshots, calls,
                            seen >>
    /\ UNCHANGED << logOutcome, log, on_progress, progress, anyExternal >>

\* looks at the return code only
has_subpath_rc_only(out) == out \in {"listed", "empty"}

\* result.returncode == 0 and result.stdout.strip() != ""
has_subpath(out) == out = "listed"

\* what the else branch records for an absent path
AbsentTotals(totals, sd) == DictSet(totals, sd, 0)

\* records no per-language mapping for an absent path
AbsentByLangMissing(by_lang, sd) == by_lang

AbsentByLang(by_lang, sd) == DictSet(by_lang, sd, EmptyDict)

\* _has_subpath(repo_path, commit_hash, sd) and the branch on its answer;
\* git ls-tree prints the directory ("listed"), prints nothing ("empty"),
\* returns a non-zero code, or times out
HasSubpath ==
    /\ pc = "ls_tree"
    /\ anyExternal' = TRUE
    /\ \E out \in {"listed", "empty", "nonzero", "timeout"} :
         IF out = "timeout"
         THEN Raise("TimeoutExpired")
         ELSE /\ calls' = [calls EXCEPT !.ls_tree = Incr(@, subdirs[sdIdx]),
                                        !.last_ls = out]
              /\ IF has_subpath(out)
                 THEN /\ pc' = "mktemp"
                      /\ UNCHANGED << sdIdx, subdir_totals, subdir_by_lang >>
                 ELSE /\ subdir_totals' =
                           AbsentTotals(subdir_totals, subdirs[sdIdx])
                      /\ subdir_by_lang' =
                           AbsentByLang(subdir_by_lang, subdirs[sdIdx])
                      /\ pc' = AfterScope(sdIdx, subdirs)
                      /\ sdIdx' = IF sdIdx < Len(subdirs)
                                  THEN sdIdx + 1 ELSE sdIdx
              /\ UNCHANGED << error, subdirs, commits, i, repo_total,
                              repo_by_lang, snapshots, pending, seen >>
    /\ UNCHANGED << logOutcome, log, on_progress, tmp, progress >>

LOCSnapshot(entry, total, by_lang, sd_totals, sd_by_lang) ==
    [month |-> entry.month, commit_hash |-> entry.hash,
     commit_date |-> entry.date, repo_total |-> total,
     repo_by_lang |-> by_lang, subdir_totals |-> sd_totals,
     subdir_by_lang |-> sd_by_lang]

\* rebinds snapshots to a list of the new Snapshot alone
AppendSnapshotOverwrites ==
    /\ pc = "append"
    /\ snapshots' = << LOCSnapshot(commits[i + 1], repo_total, repo_by_lang,
                                   subdir_totals, subdir_by_lang) >>
    /\ i' = i + 1
    /\ pc' = "loop"
    /\ UNCHANGED << error, logOutcome, log, subdirs, on_progress, commits,
                    sdIdx, repo_total, repo_by_lang, subdir_totals,
                    subdir_by_lang, tmp, pending, progress, calls, seen,
                    anyExternal >>

\* snapshots.append(LOCSnapshot(...)) and the step of the loop
AppendSnapshot ==
    /\ pc = "append"
    /\ snapshots' = Append(snapshots,
                       LOCSnapshot(commits[i + 1], repo_total, repo_by_lang,
                                   subdir_totals, subdir_by_lang))
    /\ i' = i + 1
    /\ pc' = "loop"
    /\ UNCHANGED << error, logOutcome, log, subdirs, on_progress, commits,
                    sdIdx, repo_total, repo_by_lang, subdir_totals,
                    subdir_by_lang, tmp, pending, progress, calls, seen,
                    anyExternal >>

Next ==
    \/ GetMonthlyCommits
    \/ NextMonth
    \/ Return
    \/ MkTemp
    \/ GitArchive
    \/ RunCloc
    \/ Finally
    \/ HasSubpath
    \/ AppendSnapshot

Spec == Init /\ [][Next]_vars

(***************************************************************************)
(* Properties.                                                             *)
(***************************************************************************)
Range(f) == {f[x] : x \in DOMAIN f}

MonthNumber(m) == m[1] * 12 + m[2]

MonthsOf(lines) == {MonthOf(lines[n].date) : n \in 1..Len(lines)}

IsMonthlySelection(lines, out) ==
    /\ \A a, b \in 1..Len(out) :
         a < b => MonthNumber(out[a].month) < MonthNumber(out[b].month)
    /\ {out[k].month : k \in 1..Len(out)} = MonthsOf(lines)
    /\ \A k \in 1..Len(out) :
         \E n \in 1..Len(lines) :
           /\ MonthOf(lines[n].date) = out[k].month
           /\ out[k].hash = lines[n].hash
           /\ \A later \in (n + 1)..Len(lines) :
                MonthOf(lines[later].date) # out[k].month

\* C1: whenever git log succeeds, the list get_monthly_commits returns is
\* strictly ascending by month, has exactly one entry per month occurring in
\* the printed history, and each entry carries the hash of the last line of
\* its month.
C1_MonthlySelection ==
    [][(pc = "start" /\ pc' = "loop") => IsMonthlySelection(log, commits')]_vars

\* two December commits, then a January one: December is taken from the later
C1_Witness ==
    /\ pc = "loop"
    /\ i = 0
    /\ Len(commits) = 2
    /\ commits[1].month = <<2023, 12>>
    /\ commits[1].hash = 2
    /\ commits[2].month = <<2024, 1>>
    /\ commits[2].hash = 3

FailedMonths == {k \in 1..Len(seen) : seen[k].failed}

\* C2: in a completed run in which the whole-repository step of exactly one
\* month met a non-zero exit code (of git archive or of cloc), there is one
\* Snapshot per selected month, the failing month's has repo_total = 0 and
\* repo_by_lang = {}, and every other month's has what parsing that month's
\* cloc output gives.
C2_DegradationIsolated ==
    (pc = "done" /\ Cardinality(FailedMonths) = 1) =>
        /\ Len(snapshots) = Len(commits)
        /\ Len(seen) = Len(commits)
        /\ \A k \in 1..Len(snapshots) :
             /\ snapshots[k].month = commits[k].month
             /\ IF seen[k].failed
                THEN /\ snapshots[k].repo_total = 0
                     /\ snapshots[k].repo_by_lang = EmptyDict
                ELSE /\ snapshots[k].repo_total = ParseCloc(seen[k].stdout).total
                     /\ snapshots[k].repo_by_lang =
                          ParseCloc(seen[k].stdout).by_lang

\* the first month failed, the second was counted
C2_Witness ==
    /\ pc = "done"
    /\ Len(snapshots) = 2
    /\ FailedMonths = {1}
    /\ snapshots[1].repo_total = 0
    /\ snapshots[2].repo_total = 15

\* C3 (as claimed): a timeout of git archive or of cloc makes
\* _cloc_from_archive return (0, {}); it never leaves by the exception.
C3_TimeoutReturnsZero ==
    ~(pc = "finally" /\ pending.kind = "exc" /\ pending.err = "TimeoutExpired")

Consistent(total, by_lang) ==
    total = SumValues(by_lang) \/ (total = 0 /\ by_lang = EmptyDict)

\* C4 (as claimed): in every Snapshot repo_total is the sum of repo_by_lang or
\* both are zero/empty, and so for every tracked path.
C4_TotalIsSum ==
    \A k \in 1..Len(snapshots) :
        /\ Consistent(snapshots[k].repo_total, snapshots[k].repo_by_lang)
        /\ \A p \in DOMAIN snapshots[k].subdir_totals :
             p \in DOMAIN snapshots[k].subdir_by_lang =>
               Consistent(snapshots[k].subdir_totals[p],
                          snapshots[k].subdir_by_lang[p])

\* C5: in every Snapshot subdir_totals and subdir_by_lang have the same keys,
\* the normalized tracked paths of the run.
C5_SameKeys ==
    \A k \in 1..Len(snapshots) :
        /\ DOMAIN snapshots[k].subdir_totals = Range(subdirs)
        /\ DOMAIN snapshots[k].subdir_by_lang = Range(subdirs)

\* one path absent (or failed), the other counted
C5_Witness ==
    /\ pc = "done"
    /\ \E k \in 1..Len(snapshots) :
         /\ Cardinality(DOMAIN snapshots[k].subdir_totals) = 2
         /\ \E p, q \in DOMAIN snapshots[k].subdir_totals :
              /\ snapshots[k].subdir_totals[p] = 0
              /\ snapshots[k].subdir_by_lang[p] = EmptyDict
              /\ snapshots[k].subdir_totals[q] = 15

InClocFromArchive == pc \in {"mktemp", "archive", "cloc", "finally"}

\* the path of the last existence query of the month
LastQueried == IF pc = "ls_tree" THEN subdirs[sdIdx - 1] ELSE subdirs[sdIdx]

\* C6: _cloc_from_archive runs for a tracked path only after git ls-tree
\* listed it; after an answer of absence (nothing listed, or a non-zero code)
\* the path is recorded with total 0 and an empty mapping and the run goes on.
C6_AbsentNotCounted ==
    /\ (InClocFromArchive /\ sdIdx >= 1) => calls.last_ls = "listed"
    /\ calls.last_ls \in {"empty", "nonzero"} =>
         /\ pc \in {"ls_tree", "append", "loop", "done"}
         /\ error = "none"
         /\ subdir_totals[LastQueried] = 0
         /\ subdir_by_lang[LastQueried] = EmptyDict

\* second month: the path, recorded 0 in the first month's Snapshot, is listed
\* and its count is about to be recorded
C6_Witness ==
    /\ pc = "finally"
    /\ i = 1
    /\ sdIdx = 1
    /\ calls.last_ls = "listed"
    /\ pending.total = 15
    /\ snapshots[1].subdir_totals[subdirs[1]] = 0
    /\ snapshots[1].subdir_by_lang[subdirs[1]] = EmptyDict

\* C7: the temporary archive exists only between its creation and the finally
\* clause of the same call of _cloc_from_archive, whatever way the call ends.
C7_TempRemoved == tmp => pc \in {"archive", "cloc", "finally"}

\* left by an exception raised while parsing
C7_Witness == pc = "raised" /\ error = "ValueError" /\ ~tmp

\* C8: when git log returns a non-zero code, collect_snapshots raises and
\* nothing else happens: no Snapshot, no callback, no git archive, git ls-tree
\* or cloc.
C8_HistoryFailureFatal ==
    logOutcome = "nonzero" =>
        /\ pc \in {"start", "raised"}
        /\ pc = "raised" => error = "RuntimeError"
        /\ snapshots = <<>>
        /\ progress = <<>>
        /\ ~anyExternal
        /\ ~tmp

C8_Witness == pc = "raised" /\ error = "RuntimeError" /\ logOutcome = "nonzero"

Occurrences(sds, p) == Cardinality({k \in 1..Len(sds) : sds[k] = p})

\* C10 (as claimed): when a month's Snapshot is built, git archive ran once
\* for the whole repository and git ls-tree once for each distinct normalized
\* path.
C10_OncePerPath ==
    pc = "append" =>
        /\ calls.repo_archive = 1
        /\ \A p \in Range(subdirs) : Count(calls.ls_tree, p) = 1

\* C10 (amended): when a month's Snapshot is built, git archive ran once for
\* the whole repository and git ls-tree once for each entry of the normalized
\* list (twice for a path listed twice); a call of _cloc_from_archive runs
\* git archive once and cloc at most once, also after a failure.
C10_OncePerEntry ==
    /\ pc = "append" =>
         /\ calls.repo_archive = 1
         /\ calls.hash = commits[i + 1].hash
         /\ \A p \in Range(subdirs) :
              Count(calls.ls_tree, p) = Occurrences(subdirs, p)
    /\ pc = "ls_tree" =>
         \A p \in Range(subdirs) :
           Count(calls.ls_tree, p) = Occurrences(SubSeq(subdirs, 1, sdIdx - 1), p)
    /\ calls.repo_archive <= 1
    /\ calls.archive <= 1
    /\ calls.cloc <= calls.archive
    /\ pc \in {"cloc", "finally"} => calls.archive = 1
    /\ pc = "archive" => calls.archive = 0

\* "apps/web" and "apps/web/": the path was queried twice, and the second
\* call of _cloc_from_archive for it has returned
C10_Witness ==
    /\ pc = "append"
    /\ Len(subdirs) = 2
    /\ subdirs[1] = subdirs[2]
    /\ calls.ls_tree[subdirs[1]] = 2
    /\ calls.last_ls = "listed"
    /\ calls.cloc = 1

(***************************************************************************)
(* The normalization of the subdirs argument on its own: collect_snapshots *)
(* of a branch without commits, for every list of up to MaxSubdirs strings *)
(* of up to MaxPathLen characters, separators and name characters.         *)
(***************************************************************************)
\* Longest caller-supplied subdirectory string.
MaxPathLen == 3

PathStrings == SeqsUpTo({"/", "a"}, MaxPathLen)

InitNorm ==
    /\ pc = "start"
    /\ error = "none"
    /\ logOutcome = "ok"
    /\ log = <<>>
    /\ subdirs \in SeqsUpTo(PathStrings, MaxSubdirs)
    /\ on_progress = FALSE
    /\ commits = <<>>
    /\ i = 0
    /\ sdIdx = 0
    /\ repo_total = 0
    /\ repo_by_lang = EmptyDict
    /\ subdir_totals = EmptyDict
    /\ subdir_by_lang = EmptyDict
    /\ snapshots = <<>>
    /\ tmp = FALSE
    /\ pending = NoPending
    /\ progress = <<>>
    /\ calls = NoCalls
    /\ seen = <<>>
    /\ anyExternal = FALSE

NextNorm == GetMonthlyCommits \/ Return

SpecNorm == InitNorm /\ [][NextNorm]_vars

HasName(s) == \E k \in 1..Len(s) : s[k] # "/"

OneTrailingSeparator(n) ==
    /\ n # <<>>
    /\ n[Len(n)] = "/"
    /\ Len(n) >= 2 => n[Len(n) - 1] # "/"

\* n is s without its leading and trailing separators, plus one separator
TrimmedPlusSeparator(s, n) ==
    \E lo, hi \in 0..Len(s) :
        /\ lo <= hi
        /\ \A k \in 1..lo : s[k] = "/"
        /\ \A k \in (hi + 1)..Len(s) : s[k] = "/"
        /\ n = SubSeq(s, lo + 1, hi) \o <<"/">>

\* C11 (as claimed): every normalized path has no leading separator and
\* exactly one trailing separator.
C11_NoLeadingOneTrailing ==
    pc \in {"loop", "done"} =>
        \A k \in 1..Len(subdirs) :
            /\ subdirs[k][1] # "/"
            /\ OneTrailingSeparator(subdirs[k])

\* C11 (amended): the normalized list has the length and the order of the
\* list given; a string with a name character becomes that string without its
\* leading and trailing separators plus one separator (no leading separator,
\* exactly one trailing); the empty string and a string of separators only
\* become "/"; normalizing a normalized path leaves it unchanged.
C11_Normalized ==
    [][(pc = "start" /\ pc' = "loop") =>
         /\ Len(subdirs') = Len(subdirs)
         /\ \A k \in 1..Len(subdirs) :
              /\ OneTrailingSeparator(subdirs'[k])
              /\ TrimmedPlusSeparator(subdirs[k], subdirs'[k])
              /\ HasName(subdirs[k]) => subdirs'[k][1] # "/"
              /\ ~HasName(subdirs[k]) => subdirs'[k] = <<"/">>
              /\ Normalize(subdirs'[k]) = subdirs'[k]]_vars

\* "//" (or "" or "/") and "/a/" were given, in this order
C11_Witness ==
    /\ pc = "loop"
    /\ subdirs = << <<"/">>, <<"a", "/">> >>

\* the Snapshots agree, one by one and in order, with the first entries of
\* the selected commits
FollowsCommits(snaps, entries) ==
    /\ Len(snaps) <= Len(entries)
    /\ \A k \in 1..Len(snaps) :
         /\ snaps[k].month = entries[k].month
         /\ snaps[k].commit_hash = entries[k].hash
         /\ snaps[k].commit_date = entries[k].date
    /\ \A a, b \in 1..Len(snaps) :
         a < b => MonthNumber(snaps[a].month) < MonthNumber(snaps[b].month)

\* C12: the sequence collect_snapshots returns has one Snapshot per selected
\* commit, in the same order (so strictly ascending by month), the i-th with
\* the month, hash and date of the i-th commit; while the run goes on, every
\* step keeps the Snapshots appended so far as they are, and appends at most
\* one; a history without commits returns the empty sequence, no error.
C12_OnePerMonthInOrder ==
    [][/\ pc' # "raised" =>
            /\ Len(snapshots') \in {Len(snapshots), Len(snapshots) + 1}
            /\ SubSeq(snapshots', 1, Len(snapshots)) = snapshots
            /\ FollowsCommits(snapshots', commits')
       /\ pc' = "done" =>
            /\ Len(snapshots') = Len(commits')
            /\ error' = "none"
            /\ snapshots' = snapshots]_vars

\* returned two Snapshots: December from its later commit, then January
C12_Witness ==
    /\ pc = "done"
    /\ Len(snapshots) = 2
    /\ snapshots[1].month = <<2023, 12>>
    /\ snapshots[1].commit_hash = 2
    /\ snapshots[1].commit_date = <<2023, 12, 20>>
    /\ snapshots[2].month = <<2024, 1>>
    /\ snapshots[2].commit_hash = 3

\* C13 (as claimed): once cloc has exited with code 0, parsing its output
\* never aborts: _cloc_from_archive does not leave by an exception raised on
\* an empty line (IndexError) or on a code field that is no number
\* (ValueError); such rows are skipped.
C13_ParseNeverAborts ==
    ~(/\ pc = "finally"
      /\ calls.cloc = 1
      /\ pending.kind = "exc"
      /\ pending.err \in {"IndexError", "ValueError"})

====
